---- MODULE Spec2Model ----
(***************************************************************************)
(* A model of the request-scoped aggregation layer and the in-memory       *)
(* question cache of the llm server: GameService (question cache, reaper,  *)
(* GenerateQuestion, EvaluateGameResult, saveEvaluation) and ChatService   *)
(* (ProcessChat, its three lookups, evaluateAndSave).                      *)
(*                                                                         *)
(* Time is a discrete clock.  One tick stands for twelve hours, so the     *)
(* 24 hour lifetime of a cached question is two ticks.  Strings that the   *)
(* code treats as opaque (ids, replies, message contents) are short names. *)
(***************************************************************************)
EXTENDS Integers, Sequences, FiniteSets, TLC

\* ------------------------------------------------------------------------
\* Bounds of the model
\* ------------------------------------------------------------------------

\* the clock stops advancing here
MaxTime == 3

\* ------------------------------------------------------------------------
\* Program constants
\* ------------------------------------------------------------------------

\* cacheQuestion: time.Now().Add(24 * time.Hour), in ticks of twelve hours
CacheTTL == 2

\* util.ResponseTimeThreshold, milliseconds
ResponseTimeThreshold == 5000

\* util.DefaultResponseScore
DefaultResponseScore == 50

\* the literal minimum of conversations in GenerateQuestion
MinConversations == 5

DifficultyEasy == "easy"

DifficultyMedium == "medium"

DifficultyHard == "hard"

ConfidenceHigh == "high"

ConfidenceMedium == "medium"

ConfidenceLow == "low"

QuestionTypeFillInBlank == "fill_in_blank"

QuestionTypeMultipleChoice == "multiple_choice"

\* the topic extractTopic falls back to when a conversation has no messages
FallbackTopic == "general"

\* config.parseWeights: always {0.5, 0.3, 0.2}, here in tenths
MemoryEvaluationWeights == <<5, 3, 2>>

\* ------------------------------------------------------------------------
\* Value sets
\* ------------------------------------------------------------------------

\* goroutines that use the question cache concurrently
Workers == {"w1", "w2"}

\* the goroutines that serve game requests (each with the task it detaches)
GameWorkers == {"w1"}

\* question ids uuid.New() can produce
QIds == {"q1", "q2"}

\* the zero value of every Go string
EmptyString == ""

\* models.StoredQuestion, the fields the services read or write
StoredQuestion(qID, topic, difficulty, expiresAt) ==
    [QuestionID |-> qID, Topic |-> topic, Difficulty |-> difficulty, ExpiresAt |-> expiresAt]

\* the nil *StoredQuestion
NilQuestion == StoredQuestion(EmptyString, EmptyString, EmptyString, 0)

\* ------------------------------------------------------------------------
\* Conversations returned by the memory store
\* ------------------------------------------------------------------------

\* len(content) in bytes of the message contents the model uses
ContentLen(content) ==
    CASE content = "long" -> 60
      [] content = "go" -> 2
      [] OTHER -> 0

\* content[:50]
Prefix50(content) == IF content = "long" THEN "long50" ELSE content

\* models.RAGConversationSearchResult; Score is in hundredths, AgeHours is
\* time.Since(Timestamp) in hours
Conversation(id, score, ageHours, messages) ==
    [ConversationID |-> id, Score |-> score, AgeHours |-> ageHours, Messages |-> messages]

RAGMessage(role, content) == [Role |-> role, Content |-> content]

\* the zero models.RAGConversationSearchResult{}
EmptyConversation == Conversation(EmptyString, 0, 0, << >>)

ConvRecent == Conversation("c1", 70, 3, <<RAGMessage("user", "go"), RAGMessage("assistant", "reply")>>)

ConvWeek == Conversation("c2", 90, 48, <<RAGMessage("system", "long"), RAGMessage("user", "go")>>)

ConvOld == Conversation("c3", 40, 240, << >>)

Conversations == {ConvRecent, ConvWeek, ConvOld}

\* a result list of n conversations: first, then n-1 times rest
ConvList(first, rest, n) == [i \in 1..n |-> IF i = 1 THEN first ELSE rest]

\* ------------------------------------------------------------------------
\* GameService: pure helpers
\* ------------------------------------------------------------------------

\* number of results with time.Since(Timestamp).Hours()/24 < 1
RecentCount(searchResults) ==
    Cardinality({i \in 1..Len(searchResults) : searchResults[i].AgeHours < 24})

\* the inference with "at least half recent" for easy
determineDifficultyAtLeastHalf(hint, searchResults) ==
    IF hint # EmptyString /\ hint \in {DifficultyEasy, DifficultyMedium, DifficultyHard}
    THEN hint
    ELSE IF Len(searchResults) = 0
    THEN DifficultyEasy
    ELSE IF 2 * RecentCount(searchResults) >= Len(searchResults)
    THEN DifficultyEasy
    ELSE IF RecentCount(searchResults) > 0
    THEN DifficultyMedium
    ELSE DifficultyHard

determineDifficulty(hint, searchResults) ==
    IF hint # EmptyString /\ hint \in {DifficultyEasy, DifficultyMedium, DifficultyHard}
    THEN hint
    ELSE IF Len(searchResults) = 0
    THEN DifficultyEasy
    ELSE IF RecentCount(searchResults) > Len(searchResults) \div 2
    THEN DifficultyEasy
    ELSE IF RecentCount(searchResults) > 0
    THEN DifficultyMedium
    ELSE DifficultyHard

\* daysSince := int(time.Since(conv.Timestamp).Hours() / 24)
determineDifficultyFromConversation(conv) ==
    IF conv.AgeHours \div 24 = 0
    THEN DifficultyEasy
    ELSE IF conv.AgeHours \div 24 <= 7
    THEN DifficultyMedium
    ELSE DifficultyHard

\* a selection that prefers a conversation of the wanted difficulty
selectConversationByDifficulty(searchResults, difficulty) ==
    LET matching == {i \in 1..Len(searchResults) :
                        determineDifficultyFromConversation(searchResults[i]) = difficulty}
    IN  IF Len(searchResults) = 0
        THEN EmptyConversation
        ELSE IF matching = {}
        THEN searchResults[1]
        ELSE searchResults[CHOOSE i \in matching : \A j \in matching : i <= j]

selectConversation(searchResults, difficulty) ==
    IF Len(searchResults) = 0 THEN EmptyConversation ELSE searchResults[1]

extractTopic(conv) ==
    IF Len(conv.Messages) > 0
    THEN IF ContentLen(conv.Messages[1].Content) > 50
         THEN Prefix50(conv.Messages[1].Content)
         ELSE conv.Messages[1].Content
    ELSE FallbackTopic

\* scores are kept as integers: score * ScoreScale
ScoreScale == 50000

\* the linear part alone, with no floor past the threshold
TimeScoreLinear(responseTimeMs) == ResponseTimeThreshold - responseTimeMs

\* timeScore * ResponseTimeThreshold
TimeScore(responseTimeMs) ==
    IF responseTimeMs > ResponseTimeThreshold
    THEN 0
    ELSE ResponseTimeThreshold - responseTimeMs

\* the score without its recency term
calculateRetentionScoreNoRecency(weights, isCorrect, responseTimeMs) ==
    weights[1] * (IF isCorrect THEN ResponseTimeThreshold ELSE 0)
    + weights[2] * TimeScore(responseTimeMs)

\* weights[0]*correctScore + weights[1]*timeScore + weights[2]*recencyScore,
\* for the weights gs.cfg.MemoryEvaluationWeights holds
calculateRetentionScoreWith(weights, isCorrect, responseTimeMs) ==
    weights[1] * (IF isCorrect THEN ResponseTimeThreshold ELSE 0)
    + weights[2] * TimeScore(responseTimeMs)
    + weights[3] * ResponseTimeThreshold

\* calculateRetentionScore under the configuration config.Load() builds
calculateRetentionScore(isCorrect, responseTimeMs) ==
    calculateRetentionScoreWith(MemoryEvaluationWeights, isCorrect, responseTimeMs)

\* the tiers with strict bounds
determineConfidenceStrict(score) ==
    IF 10 * score > 8 * ScoreScale
    THEN ConfidenceHigh
    ELSE IF 10 * score > 5 * ScoreScale
    THEN ConfidenceMedium
    ELSE ConfidenceLow

\* score >= 0.8, score >= 0.5
determineConfidence(score) ==
    IF 10 * score >= 8 * ScoreScale
    THEN ConfidenceHigh
    ELSE IF 10 * score >= 5 * ScoreScale
    THEN ConfidenceMedium
    ELSE ConfidenceLow

suggestNextDifficulty(score) ==
    IF 10 * score >= 8 * ScoreScale
    THEN DifficultyHard
    ELSE IF 10 * score >= 5 * ScoreScale
    THEN DifficultyMedium
    ELSE DifficultyEasy

\* ------------------------------------------------------------------------
\* State
\* ------------------------------------------------------------------------

VARIABLES
    svc,            \* what a run exercises: "cache", "game", "chat", "unit", "analysis" or "lifecycle"
    clock,          \* time.Now(), in ticks
    questionCache,  \* GameService.questionCache: question id -> StoredQuestion
    cacheMutex,     \* GameService.cacheMutex: the writer and the set of readers
    reaperPc,       \* position of cleanupCacheRoutine
    pc,             \* position of each game request
    frame,          \* locals of each game request
    result,         \* what each game request returned to its caller
    reqDone,        \* whether the context of each game request is cancelled
    saveTask,       \* the saveEvaluation goroutine each game request detached
    stored,         \* history: what was last put in the cache for each id
    chatPc,         \* position of ProcessChat
    chatCtxDone,    \* whether the context of the chat request is cancelled
    lookups,        \* the three upstream lookups of ProcessChat
    completion,     \* the call of GenerateChatResponseWithProfile
    chatResult,     \* what ProcessChat returned to its caller
    chatTask,       \* the evaluateAndSave goroutine ProcessChat detached
    taskCall,       \* the upstream call evaluateAndSave is waiting on
    unit,           \* a helper called on its own: its arguments and what it returned
    analysis,       \* an analysis request: its two lookups, their channels, its position
    mainPc          \* position of main: "serving", "signalled" or "exited"

chatVars == <<chatPc, chatCtxDone, lookups, completion, chatResult, chatTask, taskCall>>

gameVars == <<clock, questionCache, cacheMutex, reaperPc, pc, frame, result,
              reqDone, saveTask, stored>>

\* ------------------------------------------------------------------------
\* Records of the game service
\* ------------------------------------------------------------------------

\* what getCachedQuestion returned: a pointer to the entry, or nil
CacheHit(q) == [found |-> TRUE, q |-> q]

CacheMiss == [found |-> FALSE, q |-> NilQuestion]

EmptyFrame ==
    [qID |-> EmptyString, topic |-> EmptyString, difficulty |-> EmptyString,
     score |-> 0, cached |-> CacheMiss, readAt |-> 0]

NoResult ==
    [kind |-> "none", err |-> EmptyString, qID |-> EmptyString, topic |-> EmptyString,
     difficulty |-> EmptyString, score |-> 0, confidence |-> EmptyString,
     nextDifficulty |-> EmptyString]

ErrorResult(err) == [NoResult EXCEPT !.kind = "error", !.err = err]

\* FillInTheBlankQuestionResponse / MultipleChoiceQuestionResponse
QuestionResult(f) ==
    [NoResult EXCEPT !.kind = "question", !.qID = f.qID, !.topic = f.topic,
                     !.difficulty = f.difficulty]

\* models.GameResultResponse
EvaluationResult(topic, score) ==
    [NoResult EXCEPT !.kind = "evaluation", !.topic = topic, !.score = score,
                     !.confidence = determineConfidence(score),
                     !.nextDifficulty = suggestNextDifficulty(score)]

NoTask ==
    [state |-> "none", ctx |-> EmptyString, qID |-> EmptyString,
     topic |-> EmptyString, score |-> 0]

NothingStored ==
    [at |-> -1, topic |-> EmptyString, difficulty |-> EmptyString, overwrote |-> FALSE]

\* ------------------------------------------------------------------------
\* Contexts
\* ------------------------------------------------------------------------

\* ctx.Done() is closed: context.Background() is never done, the context of
\* a request is done once the request is cancelled or its deadline passed
CtxDone(ctx, requestDone) == ctx = "request" /\ requestDone

\* go gs.saveEvaluation(context.Background(), ...)
EvalSaveContextRequest == "request"

EvalSaveContext == "background"

\* ------------------------------------------------------------------------
\* sync.RWMutex
\* ------------------------------------------------------------------------

Unlocked == [writer |-> "none", readers |-> {}]

\* a write lock that does not wait for the readers
CanLockDespiteReaders(m) == m.writer = "none"

CanLock(m) == m.writer = "none" /\ m.readers = {}

CanRLock(m) == m.writer = "none"

\* ------------------------------------------------------------------------
\* GameService: the question cache
\* ------------------------------------------------------------------------

\* an entry that expires the moment it is stored
CacheEntryNoTTL(qID, now) == StoredQuestion(qID, EmptyString, EmptyString, now)

\* the entry cacheQuestion builds: only QuestionID and ExpiresAt are set
CacheEntry(qID, now) == StoredQuestion(qID, EmptyString, EmptyString, now + CacheTTL)

\* a put that leaves only its own entry in the table
MapPutAlone(cache, qID, entry) == [k \in {qID} |-> entry]

\* a put that keeps the entry a key already has
MapPutIfAbsent(cache, qID, entry) ==
    [k \in DOMAIN cache \cup {qID} |-> IF k \in DOMAIN cache THEN cache[k] ELSE entry]

\* gs.questionCache[qID] = entry
MapPut(cache, qID, entry) ==
    [k \in DOMAIN cache \cup {qID} |-> IF k = qID THEN entry ELSE cache[k]]

\* time.Now().After(q.ExpiresAt) in getCachedQuestion
ExpiredAtDeadline(now, q) == now >= q.ExpiresAt

Expired(now, q) == now > q.ExpiresAt

\* the body of getCachedQuestion under the read lock
getCachedQuestion(cache, qID, now) ==
    IF qID \notin DOMAIN cache \/ Expired(now, cache[qID])
    THEN CacheMiss
    ELSE CacheHit(cache[qID])

\* an entry is reaped from the instant of its expiry on
ReapableAtDeadline(now, q) == now >= q.ExpiresAt

\* now.After(q.ExpiresAt) in cleanupCacheRoutine
ReapableReversed(now, q) == q.ExpiresAt > now

Reapable(now, q) == now > q.ExpiresAt

\* a scan that deletes one reapable entry and stops
cleanupScanOneEntry(cache, now) ==
    LET reapable == {j \in DOMAIN cache : now > cache[j].ExpiresAt}
        victim == CHOOSE j \in reapable : TRUE
    IN  IF reapable = {}
        THEN cache
        ELSE [k \in DOMAIN cache \ {victim} |-> cache[k]]

\* one scan of cleanupCacheRoutine: delete every entry that is reapable
cleanupScanResult(cache, now) ==
    [k \in {j \in DOMAIN cache : ~Reapable(now, cache[j])} |-> cache[k]]

\* ------------------------------------------------------------------------
\* GameService.GenerateQuestion
\* ------------------------------------------------------------------------

\* GenerateQuestion up to the call of cacheQuestion: the error it returns,
\* or the question it goes on to cache
GenerateQuestionPrepare(searchErr, searchResults, hint, questionType, completionOk, newID) ==
    LET difficulty == determineDifficulty(hint, searchResults)
        selectedConv == selectConversation(searchResults, difficulty)
        topic == extractTopic(selectedConv)
        failed(err) == [err |-> err, qID |-> EmptyString, topic |-> EmptyString,
                        difficulty |-> EmptyString]
    IN  IF searchErr
        THEN failed("insufficient conversation history")
        ELSE IF Len(searchResults) < MinConversations
        THEN failed("insufficient_data:")
        ELSE IF questionType \notin {QuestionTypeFillInBlank, QuestionTypeMultipleChoice}
        THEN failed("invalid_question_type:")
        ELSE IF ~completionOk
        THEN failed("failed to generate question")
        ELSE [err |-> EmptyString, qID |-> newID, topic |-> topic,
              difficulty |-> determineDifficultyFromConversation(selectedConv)]

Hints == {EmptyString, DifficultyHard}

QuestionTypes == {QuestionTypeFillInBlank, QuestionTypeMultipleChoice, "ox"}

ResultLengths == {MinConversations - 1, MinConversations}

\* what GenerateQuestion can come to, over the requests it can be given and
\* the answers of the memory store and of the completion provider
GenerateOutcomes ==
    {GenerateQuestionPrepare(searchErr, ConvList(first, ConvOld, n), hint, questionType,
                             completionOk, newID) :
        searchErr \in BOOLEAN, first \in Conversations, n \in ResultLengths,
        hint \in Hints, questionType \in QuestionTypes,
        completionOk \in BOOLEAN, newID \in QIds}

GenerateQuestion(w) ==
    /\ svc = "game"
    /\ w \in GameWorkers
    /\ pc[w] = "idle"
    /\ saveTask[w].state # "running"
    /\ \E prepared \in GenerateOutcomes :
              IF prepared.err # EmptyString
              THEN /\ result' = [result EXCEPT ![w] = ErrorResult(prepared.err)]
                   /\ UNCHANGED <<pc, frame>>
              ELSE /\ frame' = [frame EXCEPT ![w] =
                                  [EmptyFrame EXCEPT !.qID = prepared.qID,
                                                     !.topic = prepared.topic,
                                                     !.difficulty = prepared.difficulty]]
                   /\ pc' = [pc EXCEPT ![w] = "cache_lock"]
                   /\ result' = [result EXCEPT ![w] = NoResult]
    /\ reqDone' = [reqDone EXCEPT ![w] = FALSE]
    /\ saveTask' = [saveTask EXCEPT ![w] = NoTask]
    /\ UNCHANGED <<svc, mainPc, unit, analysis, clock, questionCache, cacheMutex, reaperPc, stored,
                   chatVars>>

\* a call of cacheQuestion with a question whose id is qID
cacheQuestion(w) ==
    /\ svc = "cache"
    /\ pc[w] = "idle"
    /\ \E qID \in QIds : frame' = [frame EXCEPT ![w] = [EmptyFrame EXCEPT !.qID = qID]]
    /\ pc' = [pc EXCEPT ![w] = "cache_lock"]
    /\ UNCHANGED <<svc, mainPc, unit, analysis, clock, questionCache, cacheMutex, reaperPc, result, reqDone,
                   saveTask, stored,
                   chatVars>>

\* cacheQuestion: gs.cacheMutex.Lock()
cacheQuestionLock(w) ==
    /\ pc[w] = "cache_lock"
    /\ CanLock(cacheMutex)
    /\ cacheMutex' = [cacheMutex EXCEPT !.writer = w]
    /\ pc' = [pc EXCEPT ![w] = "cache_store"]
    /\ UNCHANGED <<svc, mainPc, unit, analysis, clock, questionCache, reaperPc, frame, result, reqDone,
                   saveTask, stored,
                   chatVars>>

\* cacheQuestion: gs.questionCache[qID] = &models.StoredQuestion{...}
cacheQuestionStore(w) ==
    /\ pc[w] = "cache_store"
    /\ questionCache' = MapPut(questionCache, frame[w].qID, CacheEntry(frame[w].qID, clock))
    /\ stored' = [stored EXCEPT ![frame[w].qID] =
                    [at |-> clock, topic |-> frame[w].topic,
                     difficulty |-> frame[w].difficulty,
                     overwrote |-> svc = "cache" /\ frame[w].qID \in DOMAIN questionCache]]
    \* (overwrote is history, kept in the runs of the cache alone)
    /\ pc' = [pc EXCEPT ![w] = "cache_unlock"]
    /\ UNCHANGED <<svc, mainPc, unit, analysis, clock, cacheMutex, reaperPc, frame, result, reqDone, saveTask,
                   chatVars>>

\* cacheQuestion: the deferred gs.cacheMutex.Unlock()
cacheQuestionUnlock(w) ==
    /\ pc[w] = "cache_unlock"
    /\ cacheMutex' = [cacheMutex EXCEPT !.writer = "none"]
    /\ IF svc = "cache"
       THEN /\ pc' = [pc EXCEPT ![w] = "idle"]
            /\ frame' = [frame EXCEPT ![w] = EmptyFrame]
       ELSE /\ pc' = [pc EXCEPT ![w] = "gen_return"]
            /\ UNCHANGED frame
    /\ UNCHANGED <<svc, mainPc, unit, analysis, clock, questionCache, reaperPc, result, reqDone, saveTask, stored,
                   chatVars>>

\* GenerateQuestion: return response, nil
GenerateQuestionReturn(w) ==
    /\ pc[w] = "gen_return"
    /\ result' = [result EXCEPT ![w] = QuestionResult(frame[w])]
    /\ frame' = [frame EXCEPT ![w] = EmptyFrame]
    /\ pc' = [pc EXCEPT ![w] = "idle"]
    /\ UNCHANGED <<svc, mainPc, unit, analysis, clock, questionCache, cacheMutex, reaperPc, reqDone,
                   saveTask, stored,
                   chatVars>>

\* ------------------------------------------------------------------------
\* GameService.EvaluateGameResult
\* ------------------------------------------------------------------------

ResponseTimes == {2500}

\* EvaluateGameResult: calculateRetentionScore, then the call of getCachedQuestion
EvaluateGameResult(w) ==
    /\ svc = "game"
    /\ w \in GameWorkers
    /\ pc[w] = "idle"
    /\ saveTask[w].state # "running"
    /\ \E qID \in QIds, isCorrect \in BOOLEAN, responseTimeMs \in ResponseTimes :
          frame' = [frame EXCEPT ![w] =
                      [EmptyFrame EXCEPT !.qID = qID,
                                         !.score = calculateRetentionScore(isCorrect, responseTimeMs)]]
    /\ pc' = [pc EXCEPT ![w] = "get_rlock"]
    /\ result' = [result EXCEPT ![w] = NoResult]
    /\ reqDone' = [reqDone EXCEPT ![w] = FALSE]
    /\ saveTask' = [saveTask EXCEPT ![w] = NoTask]
    /\ UNCHANGED <<svc, mainPc, unit, analysis, clock, questionCache, cacheMutex, reaperPc, stored,
                   chatVars>>

\* a call of getCachedQuestion(qID)
getCachedQuestionCall(w) ==
    /\ svc = "cache"
    /\ pc[w] = "idle"
    /\ \E qID \in QIds : frame' = [frame EXCEPT ![w] = [EmptyFrame EXCEPT !.qID = qID]]
    /\ pc' = [pc EXCEPT ![w] = "get_rlock"]
    /\ UNCHANGED <<svc, mainPc, unit, analysis, clock, questionCache, cacheMutex, reaperPc, result, reqDone,
                   saveTask, stored,
                   chatVars>>

\* getCachedQuestion: gs.cacheMutex.RLock()
getCachedQuestionRLock(w) ==
    /\ pc[w] = "get_rlock"
    /\ CanRLock(cacheMutex)
    /\ cacheMutex' = [cacheMutex EXCEPT !.readers = @ \cup {w}]
    /\ pc' = [pc EXCEPT ![w] = "get_read"]
    /\ UNCHANGED <<svc, mainPc, unit, analysis, clock, questionCache, reaperPc, frame, result, reqDone,
                   saveTask, stored,
                   chatVars>>

\* getCachedQuestion: the lookup and the expiry test
getCachedQuestionRead(w) ==
    /\ pc[w] = "get_read"
    /\ frame' = [frame EXCEPT ![w].cached = getCachedQuestion(questionCache, frame[w].qID, clock),
                              ![w].readAt = clock]
    /\ pc' = [pc EXCEPT ![w] = "get_runlock"]
    /\ UNCHANGED <<svc, mainPc, unit, analysis, clock, questionCache, cacheMutex, reaperPc, result, reqDone,
                   saveTask, stored,
                   chatVars>>

\* getCachedQuestion: the deferred gs.cacheMutex.RUnlock()
getCachedQuestionRUnlock(w) ==
    /\ pc[w] = "get_runlock"
    /\ cacheMutex' = [cacheMutex EXCEPT !.readers = @ \ {w}]
    /\ IF svc = "cache"
       THEN /\ pc' = [pc EXCEPT ![w] = "idle"]
            /\ frame' = [frame EXCEPT ![w] = EmptyFrame]
       ELSE /\ pc' = [pc EXCEPT ![w] = "eval_save"]
            /\ UNCHANGED frame
    /\ UNCHANGED <<svc, mainPc, unit, analysis, clock, questionCache, reaperPc, result, reqDone, saveTask, stored,
                   chatVars>>

\* the topic of the entry, whether or not there is an entry
EvaluationTopicUnchecked(cached) == cached.q.Topic

\* topic := util.DifficultyEasy; replaced by the cached topic when there is one
EvaluationTopic(cached) ==
    IF cached.found /\ cached.q.Topic # EmptyString
    THEN cached.q.Topic
    ELSE DifficultyEasy

\* go gs.saveEvaluation(context.Background(), req, topic, retentionScore)
EvaluateDispatch(w) ==
    /\ pc[w] = "eval_save"
    /\ frame' = [frame EXCEPT ![w].topic = EvaluationTopic(frame[w].cached)]
    /\ saveTask' = [saveTask EXCEPT ![w] =
                      [state |-> "running", ctx |-> EvalSaveContext, qID |-> frame[w].qID,
                       topic |-> EvaluationTopic(frame[w].cached), score |-> frame[w].score]]
    /\ pc' = [pc EXCEPT ![w] = "eval_return"]
    /\ UNCHANGED <<svc, mainPc, unit, analysis, clock, questionCache, cacheMutex, reaperPc, result, reqDone, stored,
                   chatVars>>

\* the handler returns as soon as it has spawned the save
EvalCanReturnAfterSave(w) == pc[w] = "eval_return" /\ saveTask[w].state # "running"

EvalCanReturn(w) == pc[w] = "eval_return"

\* EvaluateGameResult: return &models.GameResultResponse{...}, nil
EvaluateReturn(w) ==
    /\ EvalCanReturn(w)
    /\ pc[w] = "eval_return"
    /\ result' = [result EXCEPT ![w] = EvaluationResult(frame[w].topic, frame[w].score)]
    /\ frame' = [frame EXCEPT ![w] = EmptyFrame]
    /\ pc' = [pc EXCEPT ![w] = "idle"]
    /\ UNCHANGED <<svc, mainPc, unit, analysis, clock, questionCache, cacheMutex, reaperPc, reqDone, saveTask, stored,
                   chatVars>>

\* saveEvaluation: ragClient.SaveConversation returns.  The store answered,
\* or the http client gave up (transport error, Timeout elapsed), or the
\* context of the call was done.
saveEvaluationReturn(w) ==
    /\ saveTask[w].state = "running"
    /\ \E outcome \in {"saved", "failed", "cancelled"} :
          /\ outcome = "cancelled" => CtxDone(saveTask[w].ctx, reqDone[w])
          /\ saveTask' = [saveTask EXCEPT ![w].state = outcome]
    /\ UNCHANGED <<svc, mainPc, unit, analysis, clock, questionCache, cacheMutex, reaperPc, pc, frame, result,
                   reqDone, stored,
                   chatVars>>

\* the client goes away, or the server cancels the context when the handler returned
CancelGameRequest(w) ==
    /\ svc = "game"
    /\ ~reqDone[w]
    /\ pc[w] # "idle" \/ result[w].kind # "none"
    /\ reqDone' = [reqDone EXCEPT ![w] = TRUE]
    /\ UNCHANGED <<svc, mainPc, unit, analysis, clock, questionCache, cacheMutex, reaperPc, pc, frame, result,
                   saveTask, stored,
                   chatVars>>

\* ------------------------------------------------------------------------
\* GameService.cleanupCacheRoutine and the clock
\* ------------------------------------------------------------------------

\* the ticker fired: gs.cacheMutex.Lock()
cleanupLock ==
    /\ svc \in {"cache", "game", "lifecycle"}
    /\ mainPc # "exited"
    /\ reaperPc = "waiting"
    /\ CanLock(cacheMutex)
    /\ cacheMutex' = [cacheMutex EXCEPT !.writer = "reaper"]
    /\ reaperPc' = "locked"
    /\ UNCHANGED <<svc, mainPc, unit, analysis, clock, questionCache, pc, frame, result, reqDone, saveTask, stored,
                   chatVars>>

\* now := time.Now(); the loop over the table
cleanupScan ==
    /\ mainPc # "exited"
    /\ reaperPc = "locked"
    /\ questionCache' = cleanupScanResult(questionCache, clock)
    /\ reaperPc' = "scanned"
    /\ UNCHANGED <<svc, mainPc, unit, analysis, clock, cacheMutex, pc, frame, result, reqDone, saveTask, stored,
                   chatVars>>

\* gs.cacheMutex.Unlock()
cleanupUnlock ==
    /\ mainPc # "exited"
    /\ reaperPc = "scanned"
    /\ cacheMutex' = [cacheMutex EXCEPT !.writer = "none"]
    /\ reaperPc' = "waiting"
    /\ UNCHANGED <<svc, mainPc, unit, analysis, clock, questionCache, pc, frame, result, reqDone, saveTask, stored,
                   chatVars>>

\* time passes
Tick ==
    /\ svc \in {"cache", "game", "lifecycle"}
    /\ clock < MaxTime
    /\ clock' = clock + 1
    /\ UNCHANGED <<svc, mainPc, unit, analysis, questionCache, cacheMutex, reaperPc, pc, frame, result, reqDone,
                   saveTask, stored,
                   chatVars>>

\* ------------------------------------------------------------------------
\* main
\* ------------------------------------------------------------------------

\* <-sigChan: SIGINT or SIGTERM arrived
mainSignal ==
    /\ svc = "lifecycle"
    /\ mainPc = "serving"
    /\ mainPc' = "signalled"
    /\ UNCHANGED <<svc, unit, analysis, gameVars, chatVars>>

\* main logs and returns: the process ends, and with it every goroutine,
\* wherever it is
mainReturn ==
    /\ mainPc = "signalled"
    /\ mainPc' = "exited"
    /\ UNCHANGED <<svc, unit, analysis, gameVars, chatVars>>

InitMain == mainPc = "serving"

NextMain == mainSignal \/ mainReturn

InitGame ==
    /\ clock = 0
    /\ questionCache = << >>
    /\ cacheMutex = Unlocked
    /\ reaperPc = "waiting"
    /\ pc = [w \in Workers |-> "idle"]
    /\ frame = [w \in Workers |-> EmptyFrame]
    /\ result = [w \in Workers |-> NoResult]
    /\ reqDone = [w \in Workers |-> FALSE]
    /\ saveTask = [w \in Workers |-> NoTask]
    /\ stored = [q \in QIds |-> NothingStored]

NextGame ==
    \/ \E w \in Workers : cacheQuestion(w)
    \/ \E w \in Workers : getCachedQuestionCall(w)
    \/ \E w \in Workers : GenerateQuestion(w)
    \/ \E w \in Workers : cacheQuestionLock(w)
    \/ \E w \in Workers : cacheQuestionStore(w)
    \/ \E w \in Workers : cacheQuestionUnlock(w)
    \/ \E w \in Workers : GenerateQuestionReturn(w)
    \/ \E w \in Workers : EvaluateGameResult(w)
    \/ \E w \in Workers : getCachedQuestionRLock(w)
    \/ \E w \in Workers : getCachedQuestionRead(w)
    \/ \E w \in Workers : getCachedQuestionRUnlock(w)
    \/ \E w \in Workers : EvaluateDispatch(w)
    \/ \E w \in Workers : EvaluateReturn(w)
    \/ \E w \in Workers : saveEvaluationReturn(w)
    \/ \E w \in Workers : CancelGameRequest(w)
    \/ cleanupLock
    \/ cleanupScan
    \/ cleanupUnlock
    \/ Tick

\* ------------------------------------------------------------------------
\* Upstream calls (RAGClient over net/http, OpenAIService over go-openai)
\* ------------------------------------------------------------------------

\* an upstream call: idle, in flight or returned; what the upstream answered
\* so far; whether the Timeout of the http client has elapsed
IdleCall(nil) ==
    [state |-> "idle", answer |-> "none", val |-> nil, timedOut |-> FALSE,
     err |-> FALSE, result |-> nil, cause |-> "none", args |-> << >>]

IssuedCall(nil) == [IdleCall(nil) EXCEPT !.state = "inflight"]

\* why a call in flight can return: the upstream answered, the context of the
\* request is done (http.NewRequestWithContext), the client timed out
ReturnCauses(call, ctxDone) ==
    {cause \in {"answer", "ctx", "timeout"} :
        \/ cause = "answer" /\ call.answer # "none"
        \/ cause = "ctx" /\ ctxDone
        \/ cause = "timeout" /\ call.timedOut}

\* the call returns (value, nil) when it returns the upstream's good answer,
\* and (nil, err) otherwise
ReturnedCall(call, cause, nil) ==
    [call EXCEPT !.state = "returned",
                 !.answer = "none",
                 !.val = nil,
                 !.timedOut = FALSE,
                 !.cause = cause,
                 !.err = ~(cause = "answer" /\ call.answer = "ok"),
                 !.result = IF cause = "answer" /\ call.answer = "ok" THEN call.val ELSE nil]

\* ------------------------------------------------------------------------
\* ChatService: values
\* ------------------------------------------------------------------------

Lookups == {"search", "profile", "attempts"}

\* the nil of each lookup's value: convertToPointers(nil) is an empty slice,
\* the other two are nil pointers
NilOf(l) == IF l = "search" THEN << >> ELSE "nil"

\* what each upstream can answer
LookupValues(l) ==
    CASE l = "search" -> {<< >>, <<ConvRecent>>, <<ConvWeek, ConvRecent>>}
      [] l = "profile" -> {"P1"}
      [] l = "attempts" -> {"A1"}

RECURSIVE messagesOf(_)
\* the contents of the user and assistant messages of one conversation
messagesOf(messages) ==
    IF messages = << >>
    THEN << >>
    ELSE IF Head(messages).Role \in {"user", "assistant"}
    THEN <<Head(messages).Content>> \o messagesOf(Tail(messages))
    ELSE messagesOf(Tail(messages))

RECURSIVE extractContextMessages(_)
extractContextMessages(results) ==
    IF results = << >>
    THEN << >>
    ELSE messagesOf(Head(results).Messages) \o extractContextMessages(Tail(results))

RECURSIVE extractMaxScore(_)
extractMaxScore(results) ==
    IF results = << >>
    THEN 0
    ELSE IF Head(results).Score > extractMaxScore(Tail(results))
    THEN Head(results).Score
    ELSE extractMaxScore(Tail(results))

\* profileInfo / incorrectAttempts: the lookup's value unless it failed
OptionalValue(call) == IF ~call.err /\ call.result # "nil" THEN call.result ELSE "nil"

NoCompletionArgs == [contextMessages |-> << >>, profileInfo |-> "nil", incorrectAttempts |-> "nil"]

NoChatResult ==
    [kind |-> "none", err |-> EmptyString, conversationID |-> EmptyString,
     response |-> EmptyString, totalConversations |-> 0, topScore |-> 0]

NoChatTask ==
    [state |-> "none", ctx |-> EmptyString, conversationID |-> EmptyString,
     response |-> EmptyString, score |-> 0, aborted |-> FALSE]

\* the context ProcessChat hands to its lookups and to the completion call
RequestCtxDoneIgnored(requestDone) == FALSE

RequestCtxDone(requestDone) == CtxDone("request", requestDone)

\* go cs.evaluateAndSave(context.Background(), ...)
ChatSaveContextRequest == "request"

ChatSaveContext == "background"

\* ------------------------------------------------------------------------
\* ChatService.ProcessChat
\* ------------------------------------------------------------------------

ProcessChat ==
    /\ svc = "chat"
    /\ chatPc = "idle"
    /\ chatPc' = "search"
    /\ UNCHANGED <<svc, mainPc, unit, analysis, gameVars, chatCtxDone, lookups, completion, chatResult, chatTask,
                   taskCall>>

\* fetchConversations / fetchUserProfile / fetchIncorrectAttempts: the
\* goroutine is started and calls the RAG client
fetchIssue(l) ==
    /\ chatPc = l
    /\ lookups[l].state = "idle"
    /\ lookups' = [lookups EXCEPT ![l] = IssuedCall(NilOf(l))]
    /\ UNCHANGED <<svc, mainPc, unit, analysis, gameVars, chatPc, chatCtxDone, completion, chatResult, chatTask,
                   taskCall>>

\* the memory store answers a lookup
StoreAnswersLookup(l) ==
    /\ lookups[l].state = "inflight"
    /\ lookups[l].answer = "none"
    /\ \/ \E v \in LookupValues(l) : lookups' = [lookups EXCEPT ![l].answer = "ok", ![l].val = v]
       \/ lookups' = [lookups EXCEPT ![l].answer = "err"]
    /\ UNCHANGED <<svc, mainPc, unit, analysis, gameVars, chatPc, chatCtxDone, completion, chatResult, chatTask,
                   taskCall>>

\* the http.Client.Timeout of the RAG client elapses on a lookup
LookupTimeout(l) ==
    /\ lookups[l].state = "inflight"
    /\ ~lookups[l].timedOut
    /\ lookups' = [lookups EXCEPT ![l].timedOut = TRUE]
    /\ UNCHANGED <<svc, mainPc, unit, analysis, gameVars, chatPc, chatCtxDone, completion, chatResult, chatTask,
                   taskCall>>

\* the RAG client returns in the goroutine, which sends the result on its channel
fetchReturn(l) ==
    /\ lookups[l].state = "inflight"
    /\ \E cause \in ReturnCauses(lookups[l], RequestCtxDone(chatCtxDone)) :
          lookups' = [lookups EXCEPT ![l] = ReturnedCall(lookups[l], cause, NilOf(l))]
    /\ UNCHANGED <<svc, mainPc, unit, analysis, gameVars, chatPc, chatCtxDone, completion, chatResult, chatTask,
                   taskCall>>

\* where ProcessChat goes on once the lookup it waits for has reported
AfterLookupShortCircuit(l, call) ==
    CASE l = "search" -> IF call.err THEN "validate" ELSE "profile"
      [] l = "profile" -> "attempts"
      [] l = "attempts" -> "validate"

AfterLookup(l, call) ==
    CASE l = "search" -> "profile"
      [] l = "profile" -> "attempts"
      [] l = "attempts" -> "validate"

\* return <-results
fetchReceive(l) ==
    /\ chatPc = l
    /\ lookups[l].state = "returned"
    /\ chatPc' = AfterLookup(l, lookups[l])
    /\ UNCHANGED <<svc, mainPc, unit, analysis, gameVars, chatCtxDone, lookups, completion, chatResult, chatTask,
                   taskCall>>

\* the condition on which ProcessChat gives up after the lookups
AnyLookupFailed(searchRes, profileRes, incorrectAttemptsRes) ==
    searchRes.err \/ profileRes.err \/ incorrectAttemptsRes.err

NoLookupFailed(searchRes, profileRes, incorrectAttemptsRes) == FALSE

LookupsFailed(searchRes, profileRes, incorrectAttemptsRes) == searchRes.err

\* if searchRes.err != nil { return nil, fmt.Errorf(...) }
validateSearch ==
    /\ chatPc = "validate"
    /\ IF LookupsFailed(lookups["search"], lookups["profile"], lookups["attempts"])
       THEN /\ chatResult' = [NoChatResult EXCEPT !.kind = "error",
                                                  !.err = "failed to search conversations"]
            /\ chatPc' = "done"
       ELSE /\ chatPc' = "generate"
            /\ UNCHANGED chatResult
    /\ UNCHANGED <<svc, mainPc, unit, analysis, gameVars, chatCtxDone, lookups, completion, chatTask, taskCall>>

\* the arguments of GenerateChatResponseWithProfile
CompletionArgs(searchRes, profileRes, incorrectAttemptsRes) ==
    [contextMessages |-> extractContextMessages(searchRes.result),
     profileInfo |-> OptionalValue(profileRes),
     incorrectAttempts |-> OptionalValue(incorrectAttemptsRes)]

\* cs.openaiService.GenerateChatResponseWithProfile(ctx, ...) is called
generateIssue ==
    /\ chatPc = "generate"
    /\ completion.state = "idle"
    /\ completion' = [IssuedCall(EmptyString) EXCEPT
                        !.args = CompletionArgs(lookups["search"], lookups["profile"],
                                                lookups["attempts"])]
    /\ UNCHANGED <<svc, mainPc, unit, analysis, gameVars, chatPc, chatCtxDone, lookups, chatResult, chatTask, taskCall>>

\* the completion provider answers the chat completion
ProviderAnswersChat ==
    /\ completion.state = "inflight"
    /\ completion.answer = "none"
    /\ \/ completion' = [completion EXCEPT !.answer = "ok", !.val = "R1"]
       \/ completion' = [completion EXCEPT !.answer = "err"]
    /\ UNCHANGED <<svc, mainPc, unit, analysis, gameVars, chatPc, chatCtxDone, lookups, chatResult, chatTask, taskCall>>

\* ProcessChat goes on to the save whatever the completion call returned
AfterGenerateAlwaysDispatch(err) == "dispatch"

\* if err != nil { return nil, fmt.Errorf("failed to generate response: %w", err) }
AfterGenerate(err) == IF err THEN "done" ELSE "dispatch"

\* GenerateChatResponseWithProfile returns: the reply, or the error that
\* ProcessChat passes on
generateReturn ==
    /\ chatPc = "generate"
    /\ completion.state = "inflight"
    /\ \E cause \in ReturnCauses(completion, RequestCtxDone(chatCtxDone)) :
          LET returned == ReturnedCall(completion, cause, EmptyString)
          IN  /\ completion' = returned
              /\ IF returned.err
                 THEN /\ chatResult' = [NoChatResult EXCEPT !.kind = "error",
                                                            !.err = "failed to generate response"]
                      /\ chatPc' = AfterGenerate(returned.err)
                 ELSE /\ chatPc' = AfterGenerate(returned.err)
                      /\ UNCHANGED chatResult
    /\ UNCHANGED <<svc, mainPc, unit, analysis, gameVars, chatCtxDone, lookups, chatTask, taskCall>>

\* conversationID := uuid.New().String(); go cs.evaluateAndSave(...), which
\* starts with the call of EvaluateUserResponseQuality
dispatchSave ==
    /\ chatPc = "dispatch"
    /\ chatTask' = [NoChatTask EXCEPT !.state = "evaluating", !.ctx = ChatSaveContext,
                                      !.conversationID = "cv1",
                                      !.response = completion.result]
    /\ taskCall' = IssuedCall(0)
    /\ chatPc' = "return"
    /\ UNCHANGED <<svc, mainPc, unit, analysis, gameVars, chatCtxDone, lookups, completion, chatResult>>

\* ProcessChat returns as soon as it has spawned evaluateAndSave
ChatCanReturnAfterSave == chatPc = "return" /\ chatTask.state \in {"saved", "failed"}

ChatCanReturn == chatPc = "return"

\* return &models.ChatResponse{...}, nil
chatReturn ==
    /\ ChatCanReturn
    /\ chatPc = "return"
    /\ chatResult' = [NoChatResult EXCEPT
                        !.kind = "response",
                        !.conversationID = "cv1",
                        !.response = completion.result,
                        !.totalConversations = Len(lookups["search"].result),
                        !.topScore = extractMaxScore(lookups["search"].result)]
    /\ chatPc' = "done"
    /\ UNCHANGED <<svc, mainPc, unit, analysis, gameVars, chatCtxDone, lookups, completion, chatTask, taskCall>>

\* the client goes away, the deadline of the request passes, or the server
\* cancels the context when the handler returned
CancelChatRequest ==
    /\ svc = "chat"
    /\ chatPc # "idle"
    /\ ~chatCtxDone
    /\ chatCtxDone' = TRUE
    /\ UNCHANGED <<svc, mainPc, unit, analysis, gameVars, chatPc, lookups, completion, chatResult, chatTask, taskCall>>

\* ------------------------------------------------------------------------
\* ChatService.evaluateAndSave
\* ------------------------------------------------------------------------

\* the content of the judge's reply: whether it parses as JSON, and its score
JudgeContent(parsable, score) == [parsable |-> parsable, score |-> score]

JudgeContents ==
    {JudgeContent(FALSE, 0)} \cup {JudgeContent(TRUE, raw) : raw \in {-5, 70, 150}}

\* the raw score as the judge gave it
ClampScoreNone(raw) == raw

\* the saturation at the end of EvaluateUserResponseQuality
ClampScore(raw) == IF raw < 0 THEN 0 ELSE IF raw > 100 THEN 100 ELSE raw

\* (score, err) of EvaluateUserResponseQuality, given the returned completion call
EvaluateUserResponseQuality(call) ==
    IF call.err
    THEN [score |-> 50, err |-> TRUE]
    ELSE IF ~call.result.parsable
    THEN [score |-> 50, err |-> FALSE]
    ELSE [score |-> ClampScore(call.result.score), err |-> FALSE]

\* responseScore in evaluateAndSave
ResponseScore(quality) == IF quality.err THEN DefaultResponseScore ELSE quality.score

\* the completion provider answers the judge call
ProviderAnswersJudge ==
    /\ chatTask.state = "evaluating"
    /\ taskCall.state = "inflight"
    /\ taskCall.answer = "none"
    /\ \/ \E content \in JudgeContents :
             taskCall' = [taskCall EXCEPT !.answer = "ok", !.val = content]
       \/ taskCall' = [taskCall EXCEPT !.answer = "err"]
    /\ UNCHANGED <<svc, mainPc, unit, analysis, gameVars, chatPc, chatCtxDone, lookups, completion, chatResult,
                   chatTask>>

\* EvaluateUserResponseQuality returns; evaluateAndSave goes on to call
\* ragClient.SaveConversation
evaluateReturn ==
    /\ chatTask.state = "evaluating"
    /\ taskCall.state = "inflight"
    /\ \E cause \in ReturnCauses(taskCall, CtxDone(chatTask.ctx, chatCtxDone)) :
          LET returned == ReturnedCall(taskCall, cause, JudgeContent(FALSE, 0))
          IN  chatTask' = [chatTask EXCEPT
                             !.state = "saving",
                             !.score = ResponseScore(EvaluateUserResponseQuality(returned)),
                             !.aborted = (cause = "ctx")]
    /\ taskCall' = IssuedCall(EmptyString)
    /\ UNCHANGED <<svc, mainPc, unit, analysis, gameVars, chatPc, chatCtxDone, lookups, completion, chatResult>>

\* the memory store answers the save
StoreAnswersSave ==
    /\ chatTask.state = "saving"
    /\ taskCall.state = "inflight"
    /\ taskCall.answer = "none"
    /\ \/ taskCall' = [taskCall EXCEPT !.answer = "ok", !.val = chatTask.conversationID]
       \/ taskCall' = [taskCall EXCEPT !.answer = "err"]
    /\ UNCHANGED <<svc, mainPc, unit, analysis, gameVars, chatPc, chatCtxDone, lookups, completion, chatResult,
                   chatTask>>

\* the http.Client.Timeout of the RAG client elapses on the save
SaveTimeout ==
    /\ chatTask.state = "saving"
    /\ taskCall.state = "inflight"
    /\ ~taskCall.timedOut
    /\ taskCall' = [taskCall EXCEPT !.timedOut = TRUE]
    /\ UNCHANGED <<svc, mainPc, unit, analysis, gameVars, chatPc, chatCtxDone, lookups, completion, chatResult,
                   chatTask>>

\* ragClient.SaveConversation returns; evaluateAndSave logs and ends
saveReturn ==
    /\ chatTask.state = "saving"
    /\ taskCall.state = "inflight"
    /\ \E cause \in ReturnCauses(taskCall, CtxDone(chatTask.ctx, chatCtxDone)) :
          LET returned == ReturnedCall(taskCall, cause, EmptyString)
          IN  /\ taskCall' = returned
              /\ chatTask' = [chatTask EXCEPT
                                !.state = IF returned.err THEN "failed" ELSE "saved",
                                !.aborted = (chatTask.aborted \/ cause = "ctx")]
    /\ UNCHANGED <<svc, mainPc, unit, analysis, gameVars, chatPc, chatCtxDone, lookups, completion, chatResult>>

InitChat ==
    /\ chatPc = "idle"
    /\ chatCtxDone = FALSE
    /\ lookups = [l \in Lookups |-> IdleCall(NilOf(l))]
    /\ completion = [IdleCall(EmptyString) EXCEPT !.args = NoCompletionArgs]
    /\ chatResult = NoChatResult
    /\ chatTask = NoChatTask
    /\ taskCall = IdleCall(EmptyString)

\* the steps of the chat service itself, and the timers of its RAG client
ChatStep ==
    \/ \E l \in Lookups : fetchIssue(l)
    \/ \E l \in Lookups : LookupTimeout(l)
    \/ \E l \in Lookups : fetchReturn(l)
    \/ \E l \in Lookups : fetchReceive(l)
    \/ validateSearch
    \/ generateIssue
    \/ generateReturn
    \/ dispatchSave
    \/ chatReturn
    \/ evaluateReturn
    \/ SaveTimeout
    \/ saveReturn

\* the requests, the cancellations and the answers of the two upstreams
ChatEnvironment ==
    \/ ProcessChat
    \/ CancelChatRequest
    \/ \E l \in Lookups : StoreAnswersLookup(l)
    \/ ProviderAnswersChat
    \/ ProviderAnswersJudge
    \/ StoreAnswersSave

NextChat == ChatStep \/ ChatEnvironment

\* ------------------------------------------------------------------------
\* GameHandler.GenerateQuestion and the helpers, called on their own
\* ------------------------------------------------------------------------

\* no helper has been called yet; a run calls one helper, once
NoCall == [fn |-> "none"]

\* the most matches a search returns in a call of a helper on its own
MaxMatches == 6

\* values of cfg.MinConversationsForGame (MIN_CONVERSATIONS_FOR_GAME)
MinConversationsForGameValues == {3, 5, 6}

\* len(errMsg) of the messages GenerateQuestion returns, the shortest each
\* can be
ErrLen(errMsg) ==
    CASE errMsg = "insufficient conversation history" -> 35
      [] errMsg = "insufficient_data:" -> 55
      [] errMsg = "invalid_question_type:" -> 24
      [] errMsg = "failed to generate question" -> 27
      [] OTHER -> 0

\* errMsg[:18]
Prefix18(errMsg) ==
    CASE errMsg = "insufficient conversation history" -> "insufficient conve"
      [] errMsg = "insufficient_data:" -> "insufficient_data:"
      [] errMsg = "invalid_question_type:" -> "invalid_question_t"
      [] errMsg = "failed to generate question" -> "failed to generate"
      [] OTHER -> errMsg

\* GameHandler.GenerateQuestion: the status and the code that answer an error
\* of the service, or 200 when there is none
HandlerResponse(errMsg) ==
    IF errMsg = EmptyString
    THEN [status |-> 200, code |-> EmptyString]
    ELSE IF errMsg = "invalid_question_type"
    THEN [status |-> 400, code |-> "INVALID_QUESTION_TYPE"]
    ELSE IF ErrLen(errMsg) > 18 /\ Prefix18(errMsg) = "insufficient_data:"
    THEN [status |-> 422, code |-> "INSUFFICIENT_DATA"]
    ELSE [status |-> 500, code |-> "INTERNAL_ERROR"]

\* a conversation exactly one day old
ConvDay == Conversation("c4", 50, 24, << >>)

\* n matches of which the first r are younger than one day
MatchList(n, r, older) == [i \in 1..n |-> IF i <= r THEN ConvRecent ELSE older]

\* the content of the provider's reply to a question-generation call:
\* whether it is JSON, and which of the fields it carries
QuestionContent(parsable, question, options, correctAnswer) ==
    [parsable |-> parsable, question |-> question, options |-> options,
     correctAnswer |-> correctAnswer]

QuestionContents ==
    {QuestionContent(FALSE, FALSE, FALSE, FALSE)}
    \cup {QuestionContent(TRUE, question, options, correctAnswer) :
             question \in BOOLEAN, options \in BOOLEAN, correctAnswer \in BOOLEAN}

\* OpenAIService.GenerateFillInTheBlankQuestion / GenerateMultipleChoiceQuestion
\* return no error: the call succeeded with a choice, and json.Unmarshal
\* accepted its content (a missing field is left at its zero value)
GenerateQuestionContentOk(callOk, content) == callOk /\ content.parsable

\* POST /api/game/question under a configured minimum of conversations, up
\* to the call of cacheQuestion
CallGenerateQuestion ==
    /\ svc = "unit"
    /\ unit = NoCall
    /\ \E m \in MinConversationsForGameValues, searchErr \in BOOLEAN, n \in 0..MaxMatches,
          questionType \in QuestionTypes, callOk \in BOOLEAN, content \in QuestionContents :
          LET completionOk == GenerateQuestionContentOk(callOk, content)
              prepared == GenerateQuestionPrepare(searchErr, ConvList(ConvRecent, ConvOld, n),
                                                  EmptyString, questionType, completionOk, "q1")
          IN  unit' = [fn |-> "GenerateQuestion", minConversations |-> m,
                       searchErr |-> searchErr, n |-> n, questionType |-> questionType,
                       callOk |-> callOk, content |-> content,
                       completionOk |-> completionOk, err |-> prepared.err,
                       cached |-> IF prepared.err = EmptyString THEN prepared.qID
                                  ELSE EmptyString,
                       response |-> HandlerResponse(prepared.err)]
    /\ UNCHANGED <<svc, mainPc, analysis, gameVars, chatVars>>

\* weights in tenths that sum to 1.0
WeightTriples == {<<5, 3, 2>>, <<10, 0, 0>>, <<0, 10, 0>>, <<0, 0, 10>>, <<3, 4, 3>>}

\* values of GameResultRequest.ResponseTimeMs, an int64 the handler does not
\* validate
AnyResponseTimes == {-5000, -1, 0, 1, 2500, 4999, 5000, 5001, 10000}

CallCalculateRetentionScore ==
    /\ svc = "unit"
    /\ unit = NoCall
    /\ \E weights \in WeightTriples, isCorrect \in BOOLEAN, responseTimeMs \in AnyResponseTimes :
          unit' = [fn |-> "calculateRetentionScore", weights |-> weights,
                   isCorrect |-> isCorrect, responseTimeMs |-> responseTimeMs,
                   timeScore |-> TimeScore(responseTimeMs),
                   score |-> calculateRetentionScoreWith(weights, isCorrect, responseTimeMs)]
    /\ UNCHANGED <<svc, mainPc, analysis, gameVars, chatVars>>

\* scores around the two thresholds, times ScoreScale
AnyScores == {-5000, 0, 24999, 25000, 25001, 39999, 40000, 40001, 50000, 65000}

\* determineConfidence and suggestNextDifficulty of one score
CallScoreTiers ==
    /\ svc = "unit"
    /\ unit = NoCall
    /\ \E score \in AnyScores :
          unit' = [fn |-> "tiers", score |-> score,
                   confidence |-> determineConfidence(score),
                   nextDifficulty |-> suggestNextDifficulty(score)]
    /\ UNCHANGED <<svc, mainPc, analysis, gameVars, chatVars>>

\* the hints a request can carry: none, the three levels, an unknown one
AnyHints == {EmptyString, DifficultyEasy, DifficultyMedium, DifficultyHard, "expert"}

CallDetermineDifficulty ==
    /\ svc = "unit"
    /\ unit = NoCall
    /\ \E hint \in AnyHints, n \in 0..MaxMatches, older \in {ConvOld, ConvDay} :
          \E r \in 0..n :
             unit' = [fn |-> "determineDifficulty", hint |-> hint, n |-> n, r |-> r,
                      difficulty |-> determineDifficulty(hint, MatchList(n, r, older))]
    /\ UNCHANGED <<svc, mainPc, analysis, gameVars, chatVars>>

\* two GenerateQuestion requests that differ in DifficultyHint only, on the
\* same search results and the same completion outcome
CallGenerateQuestionPair ==
    /\ svc = "unit"
    /\ unit = NoCall
    /\ \E hintA \in AnyHints, hintB \in AnyHints, first \in Conversations,
          rest \in {ConvRecent, ConvOld}, n \in {MinConversations - 1, MinConversations, MaxMatches},
          questionType \in QuestionTypes, completionOk \in BOOLEAN :
          LET searchResults == ConvList(first, rest, n)
              selected(hint) == selectConversation(searchResults,
                                                   determineDifficulty(hint, searchResults))
              question(hint) == GenerateQuestionPrepare(FALSE, searchResults, hint, questionType,
                                                        completionOk, "q1")
          IN  unit' = [fn |-> "GenerateQuestionPair", hintA |-> hintA, hintB |-> hintB,
                       searchResults |-> searchResults, questionType |-> questionType,
                       completionOk |-> completionOk,
                       wantedA |-> determineDifficulty(hintA, searchResults),
                       wantedB |-> determineDifficulty(hintB, searchResults),
                       selectedA |-> selected(hintA), selectedB |-> selected(hintB),
                       a |-> question(hintA), b |-> question(hintB)]
    /\ UNCHANGED <<svc, mainPc, analysis, gameVars, chatVars>>

InitUnit == unit = NoCall

NextUnit ==
    \/ CallGenerateQuestion
    \/ CallCalculateRetentionScore
    \/ CallScoreTiers
    \/ CallDetermineDifficulty
    \/ CallGenerateQuestionPair

\* ------------------------------------------------------------------------
\* AnalysisService.ProcessAnalysisRequest and ProcessDomainAnalysisOnly
\* ------------------------------------------------------------------------

\* the two lookups: fetchConversationHistory and fetchIncorrectQuizzes
AnalysisLookups == {"conversations", "quizzes"}

\* the lists of strings a lookup can return when it succeeds
AnalysisValues(l) ==
    IF l = "conversations" THEN {<<"m1", "m2">>, << >>} ELSE {<<"z1">>, << >>}

\* a lookup goroutine: not spawned, running, or finished with (value, err)
NoLookupTask == [state |-> "none", err |-> FALSE, value |-> << >>]

NoAnalysis ==
    [op |-> "none", pc |-> "idle",
     task |-> [l \in AnalysisLookups |-> NoLookupTask],
     chan |-> [l \in AnalysisLookups |-> << >>],
     received |-> [l \in AnalysisLookups |-> << >>],
     analyzed |-> << >>,
     result |-> "none"]

\* a goroutine whose lookup failed sends nothing
ChannelSendNothingOnError(err, value) == IF err THEN << >> ELSE <<value>>

\* what a lookup goroutine sends on its channel: the empty list when the
\* lookup failed, the list it fetched otherwise
ChannelSend(err, value) == <<IF err THEN << >> ELSE value>>

\* make(chan []string, 1), twice, and the two go statements
SpawnedAnalysis(op) ==
    [NoAnalysis EXCEPT
        !.op = op,
        !.pc = "recv_conversations",
        !.task = [l \in AnalysisLookups |-> [NoLookupTask EXCEPT !.state = "running"]]]

ProcessAnalysisRequest ==
    /\ svc = "analysis"
    /\ analysis.pc \in {"idle", "done"}
    /\ analysis' = SpawnedAnalysis("ProcessAnalysisRequest")
    /\ UNCHANGED <<svc, mainPc, unit, gameVars, chatVars>>

ProcessDomainAnalysisOnly ==
    /\ svc = "analysis"
    /\ analysis.pc \in {"idle", "done"}
    /\ analysis' = SpawnedAnalysis("ProcessDomainAnalysisOnly")
    /\ UNCHANGED <<svc, mainPc, unit, gameVars, chatVars>>

\* the goroutine of lookup l: the fetch returns (value, nil) or (nil, err),
\* and the goroutine sends on its channel, whose buffer holds one value
LookupGoroutine(l) ==
    /\ analysis.task[l].state = "running"
    /\ Len(analysis.chan[l]) < 1
    /\ \E err \in BOOLEAN, fetched \in AnalysisValues(l) :
          LET value == IF err THEN << >> ELSE fetched
          IN  analysis' = [analysis EXCEPT
                             !.task[l] = [state |-> "done", err |-> err, value |-> value],
                             !.chan[l] = @ \o ChannelSend(err, value)]
    /\ UNCHANGED <<svc, mainPc, unit, gameVars, chatVars>>

\* conversationHistory := <-conversationChan
ReceiveConversations ==
    /\ analysis.pc = "recv_conversations"
    /\ Len(analysis.chan["conversations"]) > 0
    /\ analysis' = [analysis EXCEPT
                      !.received["conversations"] = @ \o <<Head(analysis.chan["conversations"])>>,
                      !.chan["conversations"] = Tail(@),
                      !.pc = "recv_quizzes"]
    /\ UNCHANGED <<svc, mainPc, unit, gameVars, chatVars>>

\* incorrectQuizzes := <-incorrectQuizzesChan
ReceiveQuizzes ==
    /\ analysis.pc = "recv_quizzes"
    /\ Len(analysis.chan["quizzes"]) > 0
    /\ analysis' = [analysis EXCEPT
                      !.received["quizzes"] = @ \o <<Head(analysis.chan["quizzes"])>>,
                      !.chan["quizzes"] = Tail(@),
                      !.pc = "analyze"]
    /\ UNCHANGED <<svc, mainPc, unit, gameVars, chatVars>>

\* openaiService.AnalyzeDomains(ctx, conversationHistory, incorrectQuizzes)
\* returns; on an error the request fails, otherwise ProcessAnalysisRequest
\* goes on to the report and ProcessDomainAnalysisOnly returns
AnalyzeDomains ==
    /\ analysis.pc = "analyze"
    /\ \E ok \in BOOLEAN :
          analysis' = [analysis EXCEPT
                         !.analyzed = <<[conversationHistory |-> analysis.received["conversations"][1],
                                         incorrectQuizzes |-> analysis.received["quizzes"][1]]>>,
                         !.pc = IF ok /\ analysis.op = "ProcessAnalysisRequest"
                                THEN "report" ELSE "done",
                         !.result = IF ~ok THEN "failed to analyze domains"
                                    ELSE IF analysis.op = "ProcessAnalysisRequest"
                                    THEN "none" ELSE "ok"]
    /\ UNCHANGED <<svc, mainPc, unit, gameVars, chatVars>>

\* openaiService.GenerateAnalysisReport(ctx, domains) returns
GenerateAnalysisReport ==
    /\ analysis.pc = "report"
    /\ \E ok \in BOOLEAN :
          analysis' = [analysis EXCEPT
                         !.pc = "done",
                         !.result = IF ok THEN "ok" ELSE "failed to generate report"]
    /\ UNCHANGED <<svc, mainPc, unit, gameVars, chatVars>>

InitAnalysis == analysis = NoAnalysis

NextAnalysis ==
    \/ ProcessAnalysisRequest
    \/ ProcessDomainAnalysisOnly
    \/ \E l \in AnalysisLookups : LookupGoroutine(l)
    \/ ReceiveConversations
    \/ ReceiveQuizzes
    \/ AnalyzeDomains
    \/ GenerateAnalysisReport

\* ------------------------------------------------------------------------
\* Specifications
\* ------------------------------------------------------------------------

vars == <<svc, mainPc, unit, analysis, gameVars, chatVars>>

Init ==
    /\ svc \in {"cache", "game", "chat", "unit", "analysis", "lifecycle"}
    /\ InitGame
    /\ InitChat
    /\ InitUnit
    /\ InitAnalysis
    /\ InitMain

Next == NextGame \/ NextChat \/ NextUnit \/ NextAnalysis \/ NextMain

Spec == Init /\ [][Next]_vars

\* The goroutines of the services keep running, and the timers of the RAG
\* client's http.Client fire.  Nothing obliges a client to send or cancel a
\* request, nor an upstream to answer.
FairSpec ==
    /\ Spec
    /\ WF_vars(ChatStep)
    /\ \A w \in Workers : WF_vars(saveEvaluationReturn(w))

\* ------------------------------------------------------------------------
\* Properties of the question cache
\* ------------------------------------------------------------------------

\* the expiry of the entry last put for id q
StoredExpiry(q) == stored[q].at + CacheTTL

\* C1: a getCachedQuestion(q) that reads the table strictly before the expiry
\* of the entry last put for q returns that entry, whatever the reaper and
\* other puts did in between; one that reads it after the expiry returns nil,
\* whether or not the reaper removed the entry.
C1_GetAfterPut ==
    [][\A w \in Workers :
          getCachedQuestionRead(w) =>
             LET q == frame[w].qID
             IN  /\ (stored[q].at >= 0 /\ clock < StoredExpiry(q)) =>
                       /\ frame'[w].cached.found
                       /\ frame'[w].cached.q.QuestionID = q
                       /\ frame'[w].cached.q.ExpiresAt = StoredExpiry(q)
                 /\ (stored[q].at >= 0 /\ clock > StoredExpiry(q)) =>
                       ~frame'[w].cached.found]_vars

\* one request holds the entry it read before expiry, after the reaper ran on
\* a table with two entries, while another was refused an expired entry that
\* is still in the table
C1_Witness ==
    \E w1, w2 \in Workers :
        /\ pc[w1] = "get_runlock" /\ frame[w1].cached.found
        /\ frame[w1].readAt < frame[w1].cached.q.ExpiresAt
        /\ pc[w2] = "get_runlock" /\ ~frame[w2].cached.found
        /\ frame[w2].qID \in DOMAIN questionCache
        /\ frame[w2].readAt > questionCache[frame[w2].qID].ExpiresAt

\* C2 as stated: getCachedQuestion returns an entry only while now < expiresAt.
C2_StrictExpiry ==
    \A w \in Workers :
        (pc[w] = "get_runlock" /\ frame[w].cached.found) =>
            frame[w].readAt < frame[w].cached.q.ExpiresAt

\* C2, amended: getCachedQuestion(id) returns the entry exactly when it is in
\* the table and now <= expiresAt, and nil otherwise, whether or not the
\* entry is still in the table.
C2_ExpiryInclusive ==
    [][\A w \in Workers :
          getCachedQuestionRead(w) =>
             LET q == frame[w].qID
                 live == q \in DOMAIN questionCache /\ clock <= questionCache[q].ExpiresAt
             IN  /\ frame'[w].cached.found <=> live
                 /\ live => frame'[w].cached.q = questionCache[q]
                 /\ questionCache' = questionCache]_vars

\* a read at the very instant of expiry that returned the entry
C2_Witness ==
    \E w \in Workers :
        /\ pc[w] = "get_runlock"
        /\ frame[w].cached.found
        /\ frame[w].readAt = frame[w].cached.q.ExpiresAt

\* C3: an evaluation that reads, before its expiry, the entry of a question
\* generated for topic T and difficulty D reads T and D from it, and reports
\* and saves T as the topic.
C3_TopicCarried ==
    \A w \in GameWorkers :
        LET q == frame[w].qID
        IN  (svc = "game" /\ pc[w] = "eval_return" /\ stored[q].at >= 0
               /\ frame[w].readAt < StoredExpiry(q)) =>
                /\ frame[w].cached.found
                /\ frame[w].cached.q.Topic = stored[q].topic
                /\ frame[w].cached.q.Difficulty = stored[q].difficulty
                /\ frame[w].topic = stored[q].topic
                /\ saveTask[w].topic = stored[q].topic

\* ------------------------------------------------------------------------
\* Properties of the chat fan-out
\* ------------------------------------------------------------------------

AllLookupsReported == \A l \in Lookups : lookups[l].state = "returned"

\* the search succeeded and at least one optional lookup failed
OptionalLookupFailed ==
    /\ AllLookupsReported
    /\ ~lookups["search"].err
    /\ lookups["profile"].err \/ lookups["attempts"].err

\* C4 as stated: when an optional lookup fails and the search succeeds,
\* ProcessChat does not return an error.
C4_NoErrorReturned ==
    (chatPc = "done" /\ OptionalLookupFailed) => chatResult.kind = "response"

\* C4, amended: when an optional lookup fails and the search succeeds,
\* ProcessChat does not give up on account of the lookups: it calls the
\* completion provider with the context messages extracted from the search
\* results, nil for each failed optional lookup and the value of the
\* optional lookup that succeeded, and it returns an error only if that
\* completion call fails.
C4_OptionalFailureAbsorbed ==
    (OptionalLookupFailed /\ chatPc # "validate") =>
        /\ chatResult.err # "failed to search conversations"
        /\ completion.state # "idle" =>
              /\ completion.args.contextMessages
                    = extractContextMessages(lookups["search"].result)
              /\ completion.args.profileInfo
                    = (IF lookups["profile"].err THEN "nil" ELSE lookups["profile"].result)
              /\ completion.args.incorrectAttempts
                    = (IF lookups["attempts"].err THEN "nil" ELSE lookups["attempts"].result)
        /\ chatPc = "done" =>
              /\ completion.state = "returned"
              /\ (chatResult.kind = "error") <=> completion.err
              /\ (chatResult.kind = "response") <=> ~completion.err

\* a reply was returned although the profile lookup failed; the attempts and
\* the context messages of the search reached the completion call
C4_Witness ==
    /\ chatPc = "done"
    /\ chatResult.kind = "response"
    /\ lookups["profile"].err
    /\ ~lookups["attempts"].err
    /\ completion.args.incorrectAttempts = "A1"
    /\ completion.args.profileInfo = "nil"
    /\ completion.args.contextMessages = <<"go", "go", "reply">>

\* C5: whenever the conversation search fails, ProcessChat returns the search
\* error and the completion provider is never called, whatever the optional
\* lookups did.
C5_RequiredFailureAborts ==
    (lookups["search"].state = "returned" /\ lookups["search"].err) =>
        /\ completion.state = "idle"
        /\ chatPc \notin {"generate", "dispatch", "return"}
        /\ chatTask.state = "none"
        /\ chatPc = "done" =>
              /\ chatResult.kind = "error"
              /\ chatResult.err = "failed to search conversations"

\* the request ended in the search error while both optional lookups succeeded
C5_Witness ==
    /\ chatPc = "done"
    /\ lookups["search"].err
    /\ ~lookups["profile"].err
    /\ ~lookups["attempts"].err
    /\ chatResult.kind = "error"

\* C6: the check of the search error and the completion call come only after
\* each of the three lookups has been issued and has reported, also when one
\* of them failed.
C6_JoinOnAllLookups ==
    /\ chatPc \in {"validate", "generate", "dispatch", "return", "done"} => AllLookupsReported
    /\ completion.state # "idle" => AllLookupsReported
    /\ chatResult.kind # "none" => AllLookupsReported

\* the error check is reached after a failed search, with the two other
\* lookups issued and reported after that failure
C6_Witness ==
    /\ chatPc = "validate"
    /\ lookups["search"].err
    /\ lookups["profile"].state = "returned"
    /\ lookups["attempts"].state = "returned"
    /\ lookups["attempts"].err

\* C7: once the context of the request is done while ProcessChat is under
\* way, ProcessChat returns: a lookup or completion call that the upstream
\* has not answered is given up with an error and is not waited for.
C7_DeadlineBound ==
    /\ (chatCtxDone /\ chatPc # "idle") ~> (chatPc = "done")
    /\ [][\A l \in Lookups :
             (fetchReturn(l) /\ lookups[l].answer = "none") => lookups'[l].err]_vars

\* the request was cancelled, the profile lookup was given up for that reason
\* and counted as failed, and ProcessChat has returned
C7_Witness ==
    /\ chatCtxDone
    /\ chatPc = "done"
    /\ lookups["profile"].cause = "ctx"
    /\ lookups["profile"].err
    /\ ~lookups["search"].err

\* C8: once it has spawned the save, ProcessChat (EvaluateGameResult) can
\* return at once, whatever the state of the save, and what it returned does
\* not depend on how the save ends.
C8_ResponseDoesNotWait ==
    /\ chatPc = "return" => ENABLED chatReturn
    /\ \A w \in GameWorkers : pc[w] = "eval_return" => ENABLED EvaluateReturn(w)
    /\ chatResult.kind = "response" =>
          /\ chatResult.response = completion.result
          /\ chatResult.conversationID = chatTask.conversationID
          /\ chatResult.totalConversations = Len(lookups["search"].result)
    /\ \A w \in GameWorkers :
          result[w].kind = "evaluation" =>
             result[w] = EvaluationResult(saveTask[w].topic, saveTask[w].score)

\* ProcessChat has returned its reply while the judge call of the save is
\* still unanswered
C8_Witness ==
    /\ chatPc = "done"
    /\ chatResult.kind = "response"
    /\ chatTask.state = "evaluating"
    /\ taskCall.answer = "none"

\* C9: every detached write, once dispatched, comes to an end, even if the
\* memory store or the completion provider never answers.
C9_DetachedWriteTerminates ==
    /\ (chatTask.state = "evaluating") ~> (chatTask.state \in {"saved", "failed"})
    /\ \A w \in Workers : (saveTask[w].state = "running") ~> (saveTask[w].state # "running")

\* C10: a detached write is never given up because the context of the
\* request is done: its own context is never done, and each of its upstream
\* calls returns for a reason of its own.
C10_DetachedNotCancelled ==
    /\ ~chatTask.aborted
    /\ chatTask.state # "none" => ~CtxDone(chatTask.ctx, chatCtxDone)
    /\ \A w \in Workers :
          /\ saveTask[w].state # "cancelled"
          /\ saveTask[w].state # "none" => ~CtxDone(saveTask[w].ctx, reqDone[w])

\* the request was cancelled after the reply and the chat save went through
C10_Witness ==
    /\ chatPc = "done"
    /\ chatResult.kind = "response"
    /\ chatCtxDone
    /\ chatTask.state = "saved"

\* ------------------------------------------------------------------------
\* Properties of the evaluation and of question generation
\* ------------------------------------------------------------------------

\* C11: a cache miss is never an error.  When getCachedQuestion found no
\* entry, or an expired one, EvaluateGameResult goes on to dispatch the save
\* and to return, and it returns an evaluation whose topic is the default
\* and whose score, confidence and next difficulty are those of the score
\* computed from the request.
C11_MissIsNotAnError ==
    /\ [](\A w \in GameWorkers :
          /\ (pc[w] = "eval_save" /\ ~frame[w].cached.found) => ENABLED EvaluateDispatch(w)
          /\ (pc[w] = "eval_return" /\ ~frame[w].cached.found) =>
                /\ frame[w].topic = DifficultyEasy
                /\ saveTask[w].topic = DifficultyEasy
                /\ saveTask[w].score = frame[w].score
                /\ ENABLED EvaluateReturn(w))
    /\ [][\A w \in GameWorkers :
             (EvaluateReturn(w) /\ ~frame[w].cached.found) =>
                /\ result'[w].kind = "evaluation"
                /\ result'[w].err = EmptyString
                /\ result'[w].topic = DifficultyEasy
                /\ result'[w].score = frame[w].score
                /\ result'[w].confidence = determineConfidence(frame[w].score)
                /\ result'[w].nextDifficulty = suggestNextDifficulty(frame[w].score)]_vars

\* an evaluation is about to return after it read an entry that is still in
\* the table but has expired, and another after it found no entry at all
C11_Witness ==
    \E w \in GameWorkers :
       /\ svc = "game"
       /\ pc[w] = "eval_return"
       /\ ~frame[w].cached.found
       /\ frame[w].qID \in DOMAIN questionCache
       /\ frame[w].readAt > questionCache[frame[w].qID].ExpiresAt
       /\ frame[w].topic = DifficultyEasy

\* C12: under every configured minimum m, a search that succeeds with n
\* matches is rejected as insufficient data exactly when n < m; that
\* rejection alone is answered 422 / INSUFFICIENT_DATA, and a failed search
\* is not.
C12_InsufficientData ==
    unit.fn = "GenerateQuestion" =>
       LET insufficient == ~unit.searchErr /\ unit.n < unit.minConversations
       IN  /\ unit.err = "insufficient_data:" <=> insufficient
           /\ unit.response.status = 422 <=> insufficient
           /\ unit.response.code = "INSUFFICIENT_DATA" <=> insufficient
           /\ unit.searchErr => unit.response.status = 500

\* C13: GenerateQuestion returns a question only after cacheQuestion stored
\* an entry under its id, stamped with the time of the insertion plus the
\* lifetime, and that entry is in the table when GenerateQuestion returns
\* (the return follows the insertion at once: the entry has not expired);
\* a call that returns an error leaves the table as it was.
C13_CachedBeforeReturn ==
    /\ [](\A w \in GameWorkers :
            (svc = "game" /\ pc[w] = "gen_return") =>
               LET q == frame[w].qID
               IN  /\ stored[q].at >= 0
                   /\ clock <= StoredExpiry(q) =>
                         /\ q \in DOMAIN questionCache
                         /\ questionCache[q].QuestionID = q
                         /\ questionCache[q].ExpiresAt = StoredExpiry(q))
    /\ [][\A w \in GameWorkers :
             /\ cacheQuestionStore(w) =>
                   /\ frame[w].qID \in DOMAIN questionCache'
                   /\ questionCache'[frame[w].qID].ExpiresAt = clock + CacheTTL
             /\ (GenerateQuestion(w) /\ result'[w].kind = "error") =>
                   /\ questionCache' = questionCache
                   /\ pc'[w] = "idle"
             /\ (GenerateQuestionReturn(w) /\ clock <= StoredExpiry(frame[w].qID)) =>
                   /\ result'[w].kind = "question"
                   /\ result'[w].qID \in DOMAIN questionCache']_vars

\* a question was returned a tick or more after it was put in the table,
\* where it still is
C13_Witness ==
    \E w \in GameWorkers :
       /\ svc = "game"
       /\ result[w].kind = "question"
       /\ result[w].qID \in DOMAIN questionCache
       /\ questionCache[result[w].qID].ExpiresAt = StoredExpiry(result[w].qID)
       /\ clock > stored[result[w].qID].at
       /\ clock <= StoredExpiry(result[w].qID)

\* C14: for every correctness flag, every response time and every weight
\* triple that sums to 1.0, calculateRetentionScore is in [0,1].
C14_ScoreInRange ==
    unit.fn = "calculateRetentionScore" =>
       (0 <= unit.score /\ unit.score <= ScoreScale)

\* C15: calculateRetentionScore is w0*c + w1*t + w2, where c is 1 for a
\* correct answer and 0 otherwise, and t is 1 at 0 ms, 0 from 5000 ms on,
\* (5000 - responseTimeMs)/5000 in between, and never grows with the
\* response time.
C15_ScoreFormula ==
    unit.fn = "calculateRetentionScore" =>
       LET c == IF unit.isCorrect THEN 1 ELSE 0
           ms == unit.responseTimeMs
       IN  /\ unit.score = unit.weights[1] * c * ResponseTimeThreshold
                           + unit.weights[2] * unit.timeScore
                           + unit.weights[3] * ResponseTimeThreshold
           /\ ms = 0 => unit.timeScore = ResponseTimeThreshold
           /\ ms >= 5000 => unit.timeScore = 0
           /\ (0 < ms /\ ms < 5000) => unit.timeScore = 5000 - ms
           /\ \A later \in AnyResponseTimes :
                 later > ms => TimeScore(later) <= unit.timeScore

\* a correct answer given after exactly 5000 ms: the time component is 0
C15_Witness ==
    /\ unit.fn = "calculateRetentionScore"
    /\ unit.isCorrect
    /\ unit.responseTimeMs = 5000
    /\ unit.timeScore = 0
    /\ unit.weights = <<5, 3, 2>>
    /\ unit.score = 7 * ResponseTimeThreshold

\* C16: determineConfidence is high iff score >= 0.8, medium iff
\* 0.5 <= score < 0.8, low otherwise; suggestNextDifficulty is hard, medium,
\* easy on the same bounds.
C16_ScoreTiers ==
    unit.fn = "tiers" =>
       LET high == 10 * unit.score >= 8 * ScoreScale
           mid == 10 * unit.score >= 5 * ScoreScale /\ 10 * unit.score < 8 * ScoreScale
       IN  /\ unit.confidence = ConfidenceHigh <=> high
           /\ unit.confidence = ConfidenceMedium <=> mid
           /\ unit.confidence = ConfidenceLow <=> (~high /\ ~mid)
           /\ unit.nextDifficulty = DifficultyHard <=> high
           /\ unit.nextDifficulty = DifficultyMedium <=> mid
           /\ unit.nextDifficulty = DifficultyEasy <=> (~high /\ ~mid)

\* a score of exactly 0.8: high confidence, next difficulty hard
C16_Witness ==
    /\ unit.fn = "tiers"
    /\ 10 * unit.score = 8 * ScoreScale
    /\ unit.confidence = ConfidenceHigh
    /\ unit.nextDifficulty = DifficultyHard

\* C17: determineDifficulty returns a hint that is easy, medium or hard as it
\* is; for any other hint, with n matches of which r are younger than a day,
\* it returns easy when n = 0 or 2r > n, medium when 0 < r and 2r <= n, and
\* hard when n > 0 and r = 0.
C17_DetermineDifficulty ==
    unit.fn = "determineDifficulty" =>
       IF unit.hint \in {"easy", "medium", "hard"}
       THEN unit.difficulty = unit.hint
       ELSE /\ (unit.n = 0 \/ 2 * unit.r > unit.n) => unit.difficulty = "easy"
            /\ (0 < unit.r /\ 2 * unit.r <= unit.n) => unit.difficulty = "medium"
            /\ (unit.n > 0 /\ unit.r = 0) => unit.difficulty = "hard"

\* an unknown hint and exactly half of four matches recent: medium
C17_Witness ==
    /\ unit.fn = "determineDifficulty"
    /\ unit.hint = "expert"
    /\ unit.n = 4
    /\ unit.r = 2
    /\ unit.difficulty = DifficultyMedium

\* ------------------------------------------------------------------------
\* Properties of the quality score
\* ------------------------------------------------------------------------

\* C18: the quality score saved with a chat turn is in [0,100]: a score the
\* judge gave is saturated to min(max(r,0),100), and 50 stands in when the
\* judge call fails or its reply does not parse; in each case
\* evaluateAndSave goes on to the save and the reply of ProcessChat stands.
C18_QualityScoreBounded ==
    /\ [](chatTask.state \in {"saving", "saved", "failed"} =>
             (0 <= chatTask.score /\ chatTask.score <= 100))
    /\ [][evaluateReturn =>
             LET raw == taskCall.val.score
                 parsed == taskCall.answer = "ok" /\ taskCall.val.parsable
             IN  /\ (parsed /\ raw < 0) => chatTask'.score = 0
                 /\ (parsed /\ raw > 100) => chatTask'.score = 100
                 /\ (parsed /\ 0 <= raw /\ raw <= 100) => chatTask'.score = raw
                 /\ ~parsed => chatTask'.score = 50
                 /\ chatTask'.state = "saving"
                 /\ taskCall'.state = "inflight"
                 /\ chatResult' = chatResult
                 /\ chatPc' = chatPc]_vars

\* a turn was saved with the score 100, which only the raw score 150 gives
C18_Witness ==
    /\ chatTask.state = "saved"
    /\ chatTask.score = 100
    /\ chatResult.kind = "response"

\* ------------------------------------------------------------------------
\* Properties of the analysis requests
\* ------------------------------------------------------------------------

\* the two lookup goroutines have finished
AnalysisLookupsDone == \A l \in AnalysisLookups : analysis.task[l].state = "done"

\* C19: in both analysis requests the orchestrator receives exactly one
\* value from each of the two lookups, the empty list from one that failed;
\* it is never left waiting on a lookup that has finished; it calls
\* AnalyzeDomains only after both have reported, with the values they sent;
\* and it fails only if AnalyzeDomains or the report fails.
C19_AnalysisFanIn ==
    /\ \A l \in AnalysisLookups :
          /\ Len(analysis.chan[l]) + Len(analysis.received[l]) <= 1
          /\ analysis.task[l].state = "done" =>
                /\ Len(analysis.chan[l]) + Len(analysis.received[l]) = 1
                /\ analysis.task[l].err =>
                      analysis.chan[l] \o analysis.received[l] = << << >> >>
                /\ ~analysis.task[l].err =>
                      analysis.chan[l] \o analysis.received[l] = <<analysis.task[l].value>>
    /\ (analysis.pc = "recv_conversations" /\ analysis.task["conversations"].state = "done")
          => ENABLED ReceiveConversations
    /\ (analysis.pc = "recv_quizzes" /\ analysis.task["quizzes"].state = "done")
          => ENABLED ReceiveQuizzes
    /\ analysis.pc = "analyze" =>
          /\ AnalysisLookupsDone
          /\ \A l \in AnalysisLookups : Len(analysis.received[l]) = 1
          /\ ENABLED AnalyzeDomains
    /\ analysis.analyzed # << >> =>
          /\ AnalysisLookupsDone
          /\ analysis.analyzed[1].conversationHistory = analysis.task["conversations"].value
          /\ analysis.analyzed[1].incorrectQuizzes = analysis.task["quizzes"].value
    /\ analysis.result \notin {"none", "ok"} =>
          /\ analysis.analyzed # << >>
          /\ analysis.result \in {"failed to analyze domains", "failed to generate report"}

\* the lookup of the quizzes failed, that of the conversations succeeded, and
\* ProcessAnalysisRequest came to a good end with the empty list of quizzes
C19_Witness ==
    /\ analysis.op = "ProcessAnalysisRequest"
    /\ analysis.pc = "done"
    /\ analysis.result = "ok"
    /\ analysis.task["quizzes"].err
    /\ ~analysis.task["conversations"].err
    /\ analysis.analyzed[1].incorrectQuizzes = << >>
    /\ analysis.analyzed[1].conversationHistory = <<"m1", "m2">>

\* ------------------------------------------------------------------------
\* Properties of the reaper
\* ------------------------------------------------------------------------

\* C20 as stated: a scan at time now removes every entry with
\* expiresAt <= now, removes none with expiresAt > now, and leaves the ones
\* it keeps as they were.
C20_ScanRemovesAtDeadline ==
    [][cleanupScan =>
          \A q \in DOMAIN questionCache :
             /\ questionCache[q].ExpiresAt <= clock => q \notin DOMAIN questionCache'
             /\ questionCache[q].ExpiresAt > clock =>
                   (q \in DOMAIN questionCache' /\ questionCache'[q] = questionCache[q])]_vars

\* C20, amended: a scan at time now removes every entry with
\* expiresAt < now, removes none with expiresAt >= now, leaves the ones it
\* keeps as they were, and adds none.
C20_ScanRemovesPastDeadline ==
    [][cleanupScan =>
          /\ DOMAIN questionCache' \subseteq DOMAIN questionCache
          /\ \A q \in DOMAIN questionCache :
                /\ questionCache[q].ExpiresAt < clock => q \notin DOMAIN questionCache'
                /\ questionCache[q].ExpiresAt >= clock =>
                      (q \in DOMAIN questionCache' /\ questionCache'[q] = questionCache[q])]_vars

\* a scan has just kept an entry that expires at this very instant and
\* removed one that expired before
C20_Witness ==
    /\ reaperPc = "scanned"
    /\ \E q \in DOMAIN questionCache : questionCache[q].ExpiresAt = clock
    /\ \E q \in QIds :
          /\ q \notin DOMAIN questionCache
          /\ stored[q].at >= 0
          /\ StoredExpiry(q) < clock

\* C21: the reaper runs for the lifetime of the process and stops when the
\* process shuts down: by the time main has returned after the signal, the
\* loop of cleanupCacheRoutine has exited and its ticker is stopped.
C21_ReaperStopsOnShutdown ==
    /\ mainPc # "exited" => reaperPc \in {"waiting", "locked", "scanned"}
    /\ mainPc = "exited" => reaperPc = "stopped"

\* C22: last write wins.  The entry the table holds for an id is whole and
\* is the one of the cacheQuestion that last held the write lock for that
\* id: its ExpiresAt is the time of that put plus the lifetime.  A put
\* writes while it holds the write lock, and between puts an entry changes
\* only by being removed.
C22_LastWriteWins ==
    /\ [](\A q \in DOMAIN questionCache :
             /\ stored[q].at >= 0
             /\ questionCache[q] = StoredQuestion(q, EmptyString, EmptyString, StoredExpiry(q)))
    /\ [](\A w \in Workers :
             pc[w] \in {"cache_store", "cache_unlock"} => cacheMutex.writer = w)
    /\ [][\A q \in QIds :
             /\ (q \in DOMAIN questionCache' /\ q \notin DOMAIN questionCache) =>
                   \E w \in Workers : cacheQuestionStore(w) /\ frame[w].qID = q
             /\ (q \in DOMAIN questionCache' /\ q \in DOMAIN questionCache
                 /\ questionCache'[q] # questionCache[q]) =>
                   \E w \in Workers : cacheQuestionStore(w) /\ frame[w].qID = q
             /\ stored'[q] # stored[q] =>
                   /\ \E w \in Workers : cacheQuestionStore(w) /\ frame[w].qID = q
                   /\ questionCache'[q].ExpiresAt = clock + CacheTTL]_vars

\* a put has just replaced an older entry of its id with a later expiry,
\* while the other worker waits for the lock to put the same id
C22_Witness ==
    \E q \in DOMAIN questionCache :
       /\ svc = "cache"
       /\ stored[q].overwrote
       /\ stored[q].at > 0
       /\ questionCache[q].ExpiresAt = clock + CacheTTL
       /\ pc["w1"] = "cache_unlock" /\ frame["w1"].qID = q
       /\ pc["w2"] = "cache_lock" /\ frame["w2"].qID = q

\* C23: when the provider's reply to a question-generation call lacks the
\* question text, the options or the correct answer, GenerateQuestion fails:
\* no question is returned and none is put in the cache.
C23_MalformedRejected ==
    (/\ unit.fn = "GenerateQuestion"
     /\ ~unit.searchErr
     /\ unit.n >= MinConversations
     /\ unit.questionType \in {QuestionTypeFillInBlank, QuestionTypeMultipleChoice}
     /\ unit.callOk
     /\ ~(unit.content.question /\ unit.content.options /\ unit.content.correctAnswer))
    => (/\ unit.err # EmptyString
        /\ unit.response.status # 200
        /\ unit.cached = EmptyString)

\* ------------------------------------------------------------------------
\* Properties of the chat lookups
\* ------------------------------------------------------------------------

\* C24: the lookups of a chat request are in flight together: while
\* ProcessChat is in its lookups, a lookup that has not started can start,
\* whatever the state of the others.
C24_LookupsStartIndependently ==
    \A l \in Lookups :
       (chatPc \in Lookups /\ lookups[l].state = "idle") => ENABLED fetchIssue(l)

\* ------------------------------------------------------------------------
\* Properties of the locking of the question cache
\* ------------------------------------------------------------------------

\* inside the critical section of cacheQuestion
InPut(w) == pc[w] \in {"cache_store", "cache_unlock"}

\* inside the critical section of getCachedQuestion
InGet(w) == pc[w] \in {"get_read", "get_runlock"}

\* inside the critical section of a scan of cleanupCacheRoutine
InScan == reaperPc \in {"locked", "scanned"}

\* C25: at most one of the puts and the reaper scan is inside its critical
\* section, and then no get is; gets may be inside together; the table is
\* read and written inside these sections only.
C25_LockingDiscipline ==
    /\ [](/\ Cardinality({w \in Workers : InPut(w)}) + (IF InScan THEN 1 ELSE 0) <= 1
          /\ (InScan \/ \E w \in Workers : InPut(w)) => \A w \in Workers : ~InGet(w)
          /\ \A w \in Workers : InPut(w) <=> cacheMutex.writer = w
          /\ InScan <=> cacheMutex.writer = "reaper"
          /\ \A w \in Workers : InGet(w) <=> w \in cacheMutex.readers)
    /\ [][/\ questionCache' # questionCache =>
                \/ InScan /\ cleanupScan
                \/ \E w \in Workers : InPut(w) /\ cacheQuestionStore(w)
          /\ \A w \in Workers : getCachedQuestionRead(w) => InGet(w)]_vars

\* the two workers are inside getCachedQuestion together
C25_Witness ==
    /\ svc = "cache"
    /\ \A w \in Workers : pc[w] = "get_read" /\ w \in cacheMutex.readers
    /\ questionCache # << >>

\* C26: getCachedQuestion leaves the table as it is, whether it hits, finds
\* no entry or finds an expired one; cacheQuestion removes no entry; only a
\* scan of the reaper removes entries.
C26_OnlyReaperRemoves ==
    [][/\ \A w \in Workers :
             (\/ getCachedQuestionCall(w)
              \/ getCachedQuestionRLock(w)
              \/ getCachedQuestionRead(w)
              \/ getCachedQuestionRUnlock(w)) => questionCache' = questionCache
       /\ \A w \in Workers :
             cacheQuestionStore(w) =>
                \A q \in DOMAIN questionCache :
                   /\ q \in DOMAIN questionCache'
                   /\ q # frame[w].qID => questionCache'[q] = questionCache[q]
       /\ ~(DOMAIN questionCache \subseteq DOMAIN questionCache') => cleanupScan]_vars

\* a get has reported an expired entry as a miss, the entry is still in the
\* table, and so is the entry of the other id, put after it
C26_Witness ==
    \E w \in Workers :
       /\ svc = "cache"
       /\ pc[w] = "get_runlock"
       /\ ~frame[w].cached.found
       /\ frame[w].qID \in DOMAIN questionCache
       /\ clock > questionCache[frame[w].qID].ExpiresAt
       /\ DOMAIN questionCache = QIds

\* C27: a scan of the reaper is idempotent: run again on the table it left,
\* at the same time, it removes nothing.
C27_ScanIdempotent ==
    [][cleanupScan =>
          /\ questionCache' = cleanupScanResult(questionCache, clock)
          /\ cleanupScanResult(questionCache', clock) = questionCache']_vars

\* a scan has removed an expired entry and kept the entry that was put
\* later: a second scan at the same time has an entry to look at
C27_Witness ==
    /\ reaperPc = "scanned"
    /\ \E q \in QIds :
          /\ stored[q].at >= 0
          /\ StoredExpiry(q) < clock
          /\ q \notin DOMAIN questionCache
    /\ \E q \in DOMAIN questionCache : clock <= questionCache[q].ExpiresAt

\* ------------------------------------------------------------------------
\* Properties of the dispatch of the chat save
\* ------------------------------------------------------------------------

\* C28: evaluateAndSave is started at most once, by ProcessChat, and only
\* after the conversation search succeeded and the completion call returned
\* a reply; when ProcessChat returns an error, no task was started and no
\* save is issued; the conversation id and the reply of the save are the
\* ones returned to the caller.
C28_SaveAfterReply ==
    /\ [](/\ chatTask.state # "none" =>
                /\ lookups["search"].state = "returned" /\ ~lookups["search"].err
                /\ completion.state = "returned" /\ ~completion.err
                /\ chatTask.response = completion.result
          /\ chatResult.kind = "error" => chatTask.state = "none" /\ taskCall.state = "idle"
          /\ chatResult.kind = "response" =>
                /\ chatTask.state # "none"
                /\ chatTask.conversationID = chatResult.conversationID
                /\ chatTask.response = chatResult.response)
    /\ [][/\ (chatTask.state = "none" /\ chatTask'.state # "none") => dispatchSave
          /\ chatTask.state # "none" =>
                /\ chatTask'.state # "none"
                /\ chatTask'.state = "evaluating" => chatTask.state = "evaluating"
                /\ chatTask'.conversationID = chatTask.conversationID
                /\ chatTask'.response = chatTask.response
          /\ (StoreAnswersSave /\ taskCall'.answer = "ok") =>
                taskCall'.val = chatTask.conversationID]_vars

\* the reply was returned and the save of the same reply reached the store
C28_Witness ==
    /\ chatResult.kind = "response"
    /\ chatResult.response = "R1"
    /\ chatTask.state = "saved"
    /\ chatTask.response = chatResult.response

\* ------------------------------------------------------------------------
\* Properties of the score under the configured weights
\* ------------------------------------------------------------------------

====
